---- MODULE Spec2Model ----
(***************************************************************************)
(* A model of the monochrome Windows BMP codec of bitmap.cpp: one Bitmap   *)
(* object (its pixel matrix), the files it reads and writes, and the five   *)
(* public methods open, save, isImage, toPixelMatrix and fromPixelMatrix.   *)
(* Files are byte sequences; save and open are modelled byte by byte.       *)
(* saved remembers, for every file, the grid save last wrote into it, and   *)
(* last the most recent call and its result.                                *)
(*                                                                          *)
(* Spec runs the methods in any order on grids of up to MaxWidth columns;   *)
(* SpecCodec saves and opens images of up to MaxFileWidth columns;          *)
(* SpecDecode opens files written by other programs.                        *)
(***************************************************************************)
EXTENDS Integers, Sequences, FiniteSets

VARIABLES pixels, fs, saved, last

vars == <<pixels, fs, saved, last>>

(***************************************************************************)
(* Bounds of the model.                                                     *)
(***************************************************************************)
\* Largest width of a grid handed to fromPixelMatrix in Spec.
MaxWidth == 17
\* Largest width of an image in SpecCodec and of a file in SpecDecode.
MaxFileWidth == 33
\* Largest number of rows of a grid or of a file.
MaxHeight == 2

(***************************************************************************)
(* Constants of the program.                                                *)
(***************************************************************************)
BMP_MAGIC_ID == 2
\* sizeof(bmpfile_header): uint32 + uint16 + uint16 + uint32
HeaderSize == 12
\* sizeof(bmpfile_dib_info)
DibSize == 40
\* sizeof(bmpfile_color_table)
ColorSize == 4
\* the resolution save writes into hres and vres
Resolution == 200
\* 'B' and 'M'
CharB == 66
CharM == 77

\* The offset save writes into header.bmp_offset.
BmpOffset == BMP_MAGIC_ID + HeaderSize + DibSize + 2 * ColorSize

(***************************************************************************)
(* Little-endian integers, as the structs are written to and read from the  *)
(* file on the platforms the program targets.                               *)
(***************************************************************************)
RECURSIVE LE(_, _)
\* the k low-order bytes of n, least significant first; a negative n gives
\* its two's complement (% and \div round down)
LE(n, k) == IF k = 0 THEN <<>> ELSE <<n % 256>> \o LE(n \div 256, k - 1)

RECURSIVE RdLE(_, _, _)
\* the unsigned value of the k bytes of bytes at 0-based offset off
RdLE(bytes, off, k) ==
    IF k = 0 THEN 0 ELSE bytes[off + 1] + 256 * RdLE(bytes, off + 1, k - 1)

\* the int32_t value of the 4 bytes of bytes at 0-based offset off
RdS32(bytes, off) ==
    RdLE(bytes, off, 3)
    + 16777216 * (IF bytes[off + 4] >= 128 THEN bytes[off + 4] - 256
                  ELSE bytes[off + 4])

Zeros(n) == [i \in 1..n |-> 0]

\* bit `bit` of a byte: (byte & (1 << bit)) != 0
BitSet(byte, bit) == (byte \div (2 ^ bit)) % 2 = 1

(***************************************************************************)
(* isImage                                                                  *)
(***************************************************************************)
RECURSIVE RowsHaveWidth(_, _, _)
\* the loop of isImage from `row` on (1-based): no row differs from width
RowsHaveWidth(p, row, width) ==
    IF row > Len(p) THEN TRUE
    ELSE IF Len(p[row]) # width THEN FALSE
    ELSE RowsHaveWidth(p, row + 1, width)

isImageNoWidthGate(p) ==
    IF Len(p) = 0 THEN FALSE ELSE RowsHaveWidth(p, 1, Len(p[1]))

isImage(p) ==
    IF Len(p) = 0 \/ Len(p[1]) = 0 THEN FALSE
    ELSE RowsHaveWidth(p, 1, Len(p[1]))

(***************************************************************************)
(* toPixelMatrix and fromPixelMatrix                                        *)
(***************************************************************************)
toPixelMatrixUnchecked(p) == p

toPixelMatrix(p) == IF isImage(p) THEN p ELSE <<>>

fromPixelMatrix(values) == values

(***************************************************************************)
(* save: the bytes of the file                                              *)
(***************************************************************************)
RECURSIVE BytesPerRow(_, _)
\* for (int i = 0; i < pixels[0].size(); i += 32) bytes_per_row += 4;
BytesPerRow(width, i) ==
    IF i < width THEN 4 + BytesPerRow(width, i + 32) ELSE 0

\* header.file_size as save computes it
FileSizeField(p) == BmpOffset + BytesPerRow(Len(p[1]), 0) * Len(p)

\* magic, bmpfile_header, bmpfile_dib_info and the two colour table entries
HeaderBytes(file_size, bmp_offset, width, height, bpp, compression, reserved) ==
    <<CharB, CharM>>
    \o LE(file_size, 4) \o LE(0, 2) \o LE(0, 2) \o LE(bmp_offset, 4)
    \o LE(DibSize, 4) \o LE(width, 4) \o LE(height, 4)
    \o LE(1, 2) \o LE(bpp, 2) \o LE(compression, 4) \o LE(0, 4)
    \o LE(Resolution, 4) \o LE(Resolution, 4) \o LE(2, 4) \o LE(0, 4)
    \o <<0, 0, 0, reserved>> \o <<255, 255, 255, reserved>>

RECURSIVE PackCols(_, _, _, _, _)
\* the column loop of save over row_data from col on (1-based); yields the
\* bytes put so far and the pending next_byte
PackCols(row_data, col, bit, next_byte, out) ==
    IF col > Len(row_data) THEN <<out, next_byte>>
    ELSE LET nb == (next_byte + (IF row_data[col] THEN 2 ^ bit ELSE 0)) % 256
         IN  IF bit > 0
             THEN PackCols(row_data, col + 1, bit - 1, nb, out)
             ELSE PackCols(row_data, col + 1, 7, 0, Append(out, nb))

\* the data bytes of one row: the full bytes and the flushed partial byte
RowData(row_data) ==
    LET r == PackCols(row_data, 1, 7, 0, <<>>)
    IN  IF Len(row_data) % 8 # 0 THEN Append(r[1], r[2]) ELSE r[1]

\* for (int i = 0; i < 4 - bytes_written % 4; i++) file.put(0);
RowPadding(bytes_written) == Zeros(4 - (bytes_written % 4))

RowBytes(row_data) ==
    LET data == RowData(row_data) IN data \o RowPadding(Len(data))

RECURSIVE RowsBytes(_, _)
\* for (int row = pixels.size() - 1; row >= 0; --row), row 1-based here
RowsBytes(p, row) ==
    IF row < 1 THEN <<>> ELSE RowBytes(p[row]) \o RowsBytes(p, row - 1)

\* everything save writes for a valid image
SaveBytes(p) ==
    HeaderBytes(FileSizeField(p), BmpOffset, Len(p[1]), Len(p), 1, 0, 0)
    \o RowsBytes(p, Len(p))

(***************************************************************************)
(* open: the fields it reads and the rows it builds                         *)
(***************************************************************************)
\* magic.magic[0] == 'B' && magic.magic[1] == 'M'
MagicOk(bytes) == bytes[1] = CharB /\ bytes[2] = CharM

\* header.bmp_offset, dib_info.width, dib_info.height, ... as read
HdrBmpOffset(bytes) == RdLE(bytes, BMP_MAGIC_ID + 8, 4)
DibWidth(bytes) == RdS32(bytes, BMP_MAGIC_ID + HeaderSize + 4)
DibHeight(bytes) == RdS32(bytes, BMP_MAGIC_ID + HeaderSize + 8)
DibBitsPerPixel(bytes) == RdLE(bytes, BMP_MAGIC_ID + HeaderSize + 14, 2)
DibCompression(bytes) == RdLE(bytes, BMP_MAGIC_ID + HeaderSize + 16, 4)
ColorReserved(bytes, n) ==
    bytes[BMP_MAGIC_ID + HeaderSize + DibSize + n * ColorSize]

\* if (dib_info.height < 0) dib_info.height = -dib_info.height;
\* (flip is set here too, and never read again)
WorkingHeight(bytes) ==
    IF DibHeight(bytes) < 0 THEN -DibHeight(bytes) ELSE DibHeight(bytes)

\* int traverse_bytes = width / 8 + (width % 8 != 0)? 1 : 0;
\*   which C++ reads as (width / 8 + (width % 8 != 0)) ? 1 : 0
\* traverse_bytes += (traverse_bytes % 4 == 0)? 0 : 4 - (traverse_bytes % 4);
TraverseBytes(width) ==
    LET sum == (width \div 8) + (IF width % 8 # 0 THEN 1 ELSE 0)
        t   == IF sum # 0 THEN 1 ELSE 0
    IN  t + (IF t % 4 = 0 THEN 0 ELSE 4 - (t % 4))

\* The 0-based columns whose byte lies beyond the traverse_bytes bytes of
\* bytes_row: open reads them from outside the allocation.
OobCols(width) == {c \in 0..(width - 1) : c \div 8 >= TraverseBytes(width)}

\* (bytes_row[index] & (1 << bit)) != 0 for the row read at file offset
\* `start`; a byte outside bytes_row has the value oobrow gives its column
RowBit(bytes, start, width, index, bit, oobrow) ==
    IF index < TraverseBytes(width)
    THEN BitSet(bytes[start + index + 1], bit)
    ELSE oobrow[8 * index + (7 - bit)]

\* row_data of the row-th row read (0-based): the bits of the width / 8 full
\* bytes, then the width % 8 bits of the next byte
OpenRow(bytes, row, oobrow) ==
    LET width == DibWidth(bytes)
        start == HdrBmpOffset(bytes) + row * TraverseBytes(width)
        full  == [k \in 1..(8 * (width \div 8)) |->
                    RowBit(bytes, start, width, (k - 1) \div 8,
                           7 - ((k - 1) % 8), oobrow)]
        rest  == [k \in 1..(width % 8) |->
                    RowBit(bytes, start, width, width \div 8,
                           7 - (k - 1), oobrow)]
    IN  full \o rest

OpenPixelsHardGate(bytes, oob) ==
    IF DibBitsPerPixel(bytes) # 1 \/ DibCompression(bytes) # 0
       \/ ColorReserved(bytes, 1) # 0 \/ ColorReserved(bytes, 2) # 0
    THEN <<>>
    ELSE [r \in 1..WorkingHeight(bytes) |-> OpenRow(bytes, r - 1, oob[r])]

\* pixels after the row loop: every row is pushed at the back
OpenPixels(bytes, oob) ==
    [r \in 1..WorkingHeight(bytes) |-> OpenRow(bytes, r - 1, oob[r])]

\* The values the bytes outside bytes_row can have.
OobChoices(bytes) ==
    [1..WorkingHeight(bytes) -> [OobCols(DibWidth(bytes)) -> BOOLEAN]]

\* All of the headers are in the file.
HeadersComplete(bytes) == Len(bytes) >= BmpOffset

\* All of the file.read calls of the row loop are served in full.
DataComplete(bytes) ==
    HdrBmpOffset(bytes)
      + WorkingHeight(bytes) * TraverseBytes(DibWidth(bytes)) <= Len(bytes)

(***************************************************************************)
(* The file system: a path names nothing, a regular file (its bytes), or    *)
(* something no stream can be opened on.                                    *)
(***************************************************************************)
FileNames == {"f", "dir"}

Absent == [kind |-> "absent", bytes |-> <<>>]
Denied == [kind |-> "denied", bytes |-> <<>>]
Regular(bytes) == [kind |-> "regular", bytes |-> bytes]

\* std::ifstream file(filename, in | binary); !file.fail()
CanRead(file) == file.kind = "regular"
\* std::ofstream file(filename, out | binary); !file.fail()
CanWrite(file) == file.kind # "denied"

(***************************************************************************)
(* The grids handed to fromPixelMatrix.                                     *)
(***************************************************************************)
\* Row 0 is the row of test.cpp (on iff col % 2 == 1); odd rows invert it.
PatternRow(width, row) ==
    [c \in 1..width |-> ((c - 1) % 2 = 1) # (row % 2 = 1)]

PatternGrid(width, height) ==
    [r \in 1..height |-> PatternRow(width, r - 1)]

PatternGrids == {PatternGrid(w, h) : w \in 1..MaxWidth, h \in 1..MaxHeight}

\* The same images up to the widths of one and two 32-bit words.
WideGrids == {PatternGrid(w, h) : w \in 1..MaxFileWidth, h \in 1..MaxHeight}

\* Every grid of at most MaxHeight rows over three short rows: the empty
\* grid, zero-width grids, ragged grids and small images.
SmallRows == {<<>>, <<TRUE>>, <<TRUE, FALSE>>}
SmallGrids == UNION {[1..h -> SmallRows] : h \in 0..MaxHeight}

Grids == SmallGrids \cup PatternGrids

\* What open can leave in pixels after it has read indeterminate headers:
\* some number of rows of one width.
IndeterminateGrids ==
    {[r \in 1..h |-> [c \in 1..w |-> b]] :
        h \in 0..MaxHeight, w \in 0..1, b \in BOOLEAN}

(***************************************************************************)
(* Files that other programs wrote.                                         *)
(***************************************************************************)
\* The row size of the BMP format.
StdStride(width) == 4 * ((((width + 7) \div 8) + 3) \div 4)

ExtRowBytes(width, row) ==
    LET data == RowData(PatternRow(width, row))
    IN  data \o Zeros(StdStride(width) - Len(data))

ExtFile(width, height, bpp, compression, reserved, bmp_offset) ==
    LET h == IF height < 0 THEN -height ELSE height
    IN  HeaderBytes(bmp_offset + h * StdStride(width), bmp_offset, width,
                    height, bpp, compression, reserved)
        \o [i \in 1..(bmp_offset - BmpOffset) |-> 255]
        \o [i \in 1..(h * StdStride(width)) |->
              ExtRowBytes(width, (i - 1) \div StdStride(width))
                  [((i - 1) % StdStride(width)) + 1]]

ExtFiles ==
    {ExtFile(w, h, bpp, cmp, res, off) :
        w \in 0..MaxFileWidth, h \in ((-MaxHeight)..MaxHeight) \ {0},
        bpp \in {1, 24}, cmp \in {0, 1}, res \in {0, 1},
        off \in {BmpOffset, BmpOffset + 4}}

\* "P5\n": not a BMP file
NotBmp == <<80, 53, 10>>
\* a file that ends after the magic bytes
OnlyMagic == <<CharB, CharM>>

(***************************************************************************)
(* The methods of Bitmap.                                                   *)
(***************************************************************************)
Called(op, file, grid, outcome) ==
    [op |-> op, file |-> file, grid |-> grid, outcome |-> outcome]

Open(filename) ==
    LET file == fs[filename] IN
    /\ UNCHANGED <<fs, saved>>
    /\ \/ /\ ~CanRead(file)
          /\ pixels' = pixels
          /\ last' = Called("open", filename, <<>>, "cannot_open")
       \/ /\ CanRead(file) /\ Len(file.bytes) >= BMP_MAGIC_ID
          /\ ~MagicOk(file.bytes)
          /\ pixels' = pixels
          /\ last' = Called("open", filename, <<>>, "bad_magic")
       \/ \* The file ends before the headers do: the reads fall short and
          \* what they did not fill is indeterminate. Magic bytes that were
          \* not read may fail the test; otherwise pixels is cleared and
          \* filled from indeterminate width, height and rows.
          /\ CanRead(file) /\ ~HeadersComplete(file.bytes)
          /\ Len(file.bytes) >= BMP_MAGIC_ID => MagicOk(file.bytes)
          /\ \/ /\ Len(file.bytes) < BMP_MAGIC_ID
                /\ pixels' = pixels
                /\ last' = Called("open", filename, <<>>, "bad_magic")
             \/ /\ pixels' \in IndeterminateGrids
                /\ last' = Called("open", filename, <<>>, "indeterminate")
       \/ /\ CanRead(file) /\ HeadersComplete(file.bytes)
          /\ MagicOk(file.bytes)
          /\ DataComplete(file.bytes)
          /\ \E oob \in OobChoices(file.bytes) :
                pixels' = OpenPixels(file.bytes, oob)
          /\ last' = Called("open", filename, <<>>, "decoded")

Save(filename) ==
    LET file == fs[filename] IN
    /\ pixels' = pixels
    /\ \/ /\ ~CanWrite(file)
          /\ UNCHANGED <<fs, saved>>
          /\ last' = Called("save", filename, <<>>, "cannot_open")
       \/ \* the stream is open and has truncated the file by now
          /\ CanWrite(file) /\ ~isImage(pixels)
          /\ fs' = [fs EXCEPT ![filename] = Regular(<<>>)]
          /\ saved' = [saved EXCEPT ![filename] = <<>>]
          /\ last' = Called("save", filename, <<>>, "invalid")
       \/ /\ CanWrite(file) /\ isImage(pixels)
          /\ fs' = [fs EXCEPT ![filename] = Regular(SaveBytes(pixels))]
          /\ saved' = [saved EXCEPT ![filename] = pixels]
          /\ last' = Called("save", filename, <<>>, "written")

IsImage ==
    /\ UNCHANGED <<pixels, fs, saved>>
    /\ last' = Called("isImage", "", <<>>,
                      IF isImage(pixels) THEN "true" ELSE "false")

ToPixelMatrix ==
    /\ UNCHANGED <<pixels, fs, saved>>
    /\ last' = Called("toPixelMatrix", "", toPixelMatrix(pixels), "returned")

FromPixelMatrix(values) ==
    /\ pixels' = fromPixelMatrix(values)
    /\ UNCHANGED <<fs, saved>>
    /\ last' = Called("fromPixelMatrix", "", values, "returned")

(***************************************************************************)
(* Spec: a new Bitmap and any sequence of calls of its methods.             *)
(***************************************************************************)
Init ==
    /\ pixels = <<>>
    /\ \E x \in {Absent, Regular(NotBmp)} :
          fs = [n \in FileNames |-> IF n = "dir" THEN Denied ELSE x]
    /\ saved = [n \in FileNames |-> <<>>]
    /\ last = Called("new", "", <<>>, "")

Next ==
    \/ \E filename \in FileNames : Open(filename)
    \/ \E filename \in FileNames : Save(filename)
    \/ IsImage
    \/ ToPixelMatrix
    \/ \E values \in Grids : FromPixelMatrix(values)

Spec == Init /\ [][Next]_vars

(***************************************************************************)
(* SpecCodec: a Bitmap, new or holding an image of up to MaxFileWidth       *)
(* columns, is saved and opened again, any number of times.                 *)
(***************************************************************************)
InitCodec ==
    /\ pixels \in {<<>>} \cup WideGrids
    /\ \E x \in {Absent, Regular(NotBmp)} :
          fs = [n \in FileNames |-> IF n = "dir" THEN Denied ELSE x]
    /\ saved = [n \in FileNames |-> <<>>]
    /\ last = Called("new", "", <<>>, "")

NextCodec ==
    \/ \E filename \in FileNames : Save(filename)
    \/ \E filename \in FileNames : Open(filename)

SpecCodec == InitCodec /\ [][NextCodec]_vars

(***************************************************************************)
(* SpecDecode: a Bitmap, empty or holding an image, opens a file that it    *)
(* did not write.                                                           *)
(***************************************************************************)
InitDecode ==
    /\ pixels \in {<<>>, PatternGrid(1, 1)}
    /\ \E x \in {Absent, Regular(<<>>), Regular(NotBmp), Regular(OnlyMagic)}
                \cup {Regular(e) : e \in ExtFiles} :
          fs = [n \in FileNames |-> IF n = "dir" THEN Denied ELSE x]
    /\ saved = [n \in FileNames |-> <<>>]
    /\ last = Called("new", "", <<>>, "")

NextDecode == \E filename \in FileNames : Open(filename)

SpecDecode == InitDecode /\ [][NextDecode]_vars

(***************************************************************************)
(* The claims.  What the specification says is stated here on its own       *)
(* terms: a valid grid, the row size of the format, the packed bytes of a   *)
(* row and the rows a file stores.                                          *)
(***************************************************************************)
ValidGrid(p) ==
    /\ Len(p) > 0
    /\ Len(p[1]) > 0
    /\ \A r \in 1..Len(p) : Len(p[r]) = Len(p[1])

Abs(n) == IF n < 0 THEN -n ELSE n

BitValue(row, c) == IF c <= Len(row) /\ row[c] THEN 1 ELSE 0

\* the i-th byte (1-based) of a row packed most significant bit first
PackedByte(row, i) ==
    128 * BitValue(row, 8 * i - 7) + 64 * BitValue(row, 8 * i - 6)
    + 32 * BitValue(row, 8 * i - 5) + 16 * BitValue(row, 8 * i - 4)
    + 8 * BitValue(row, 8 * i - 3) + 4 * BitValue(row, 8 * i - 2)
    + 2 * BitValue(row, 8 * i - 1) + BitValue(row, 8 * i)

\* pixel c (0-based) of the k-th group (0-based) of `stride` bytes after
\* bmp_offset, most significant bit first
StrideBit(bytes, stride, k, c) ==
    BitSet(bytes[HdrBmpOffset(bytes) + k * stride + (c \div 8) + 1],
           7 - (c % 8))

\* the same for the k-th row that open reads
ReadBit(bytes, k, c) ==
    StrideBit(bytes, TraverseBytes(DibWidth(bytes)), k, c)

Decoded == last.op = "open" /\ last.outcome = "decoded"
Written == last.op = "save" /\ last.outcome = "written"
OpenedBytes == fs[last.file].bytes

\* C1: fromPixelMatrix(grid), save(f), open(f) on a valid grid leaves in the
\* Bitmap a grid with the same rows, the same width and the same on/off
\* value at every (row, col).
RoundTrip ==
    (Decoded /\ saved[last.file] # <<>>) => pixels = saved[last.file]

\* C2: open puts the first row stored in a file of positive height last in
\* the grid and the last stored row at row 0, and keeps the file order of
\* the |height| rows of a file of negative height; so the two-row grid
\* [[A],[B]] comes back from save and open as [[A],[B]].  (The k-th stored
\* row is the k-th row open reads; the pixels compared are those it takes
\* from the bytes it read.)
DecoderOrientation ==
    Decoded =>
        LET h == DibHeight(OpenedBytes)
            n == Abs(h)
            w == DibWidth(OpenedBytes)
        IN  /\ Len(pixels) = n
            /\ \A r \in 1..n : \A c \in (0..(w - 1)) \ OobCols(w) :
                  pixels[r][c + 1] =
                      ReadBit(OpenedBytes, IF h > 0 THEN n - r ELSE r - 1, c)
            /\ (Len(saved[last.file]) = 2 /\ Len(saved[last.file][1]) = 1)
                  => pixels = saved[last.file]

\* C3: save on a Bitmap whose grid is not a valid image leaves the file as
\* it was (not created, not modified) and leaves the grid as it was.
SaveInvalidWritesNothing ==
    [][(last'.op = "save" /\ ~ValidGrid(pixels))
          => (fs' = fs /\ pixels' = pixels)]_vars

\* C4: after open on a file that cannot be opened, or whose first two bytes
\* are not 'B','M', the Bitmap holds the empty matrix: toPixelMatrix returns
\* the empty grid and isImage is false, whatever the Bitmap held before.
FailedOpenEmpties ==
    (/\ last.op = "open"
     /\ \/ ~CanRead(fs[last.file])
        \/ /\ Len(OpenedBytes) >= BMP_MAGIC_ID
           /\ ~(OpenedBytes[1] = CharB /\ OpenedBytes[2] = CharM))
    => (pixels = <<>> /\ toPixelMatrix(pixels) = <<>> /\ ~isImage(pixels))

\* C5: isImage returns true exactly when the grid has at least one row, row
\* 0 has at least one pixel and every row is as long as row 0, and it leaves
\* the grid as it was.
IsImageIsValidator ==
    [][last'.op = "isImage"
          => (/\ pixels' = pixels
              /\ (last'.outcome = "true") = ValidGrid(pixels))]_vars

\* isImage has rejected a grid whose second row is shorter than its first.
IsImageRejectedRagged ==
    /\ last.op = "isImage" /\ last.outcome = "false"
    /\ Len(pixels) = 2 /\ Len(pixels[1]) = 2 /\ Len(pixels[2]) = 1

\* C6: save emits each row of a valid grid of width w as exactly
\* 4*ceil(ceil(w/8)/4) bytes: the ceil(w/8) bytes packed most significant
\* bit first, then only the zero bytes needed to reach a multiple of 4.
EncoderRowPadding ==
    Written =>
        LET b == fs[last.file].bytes
            w == Len(pixels[1])
            h == Len(pixels)
        IN  /\ Len(b) = BmpOffset + h * StdStride(w)
            /\ \A k \in 0..(h - 1) : \A i \in 1..StdStride(w) :
                  b[BmpOffset + k * StdStride(w) + i] =
                      IF i <= (w + 7) \div 8
                      THEN PackedByte(pixels[h - k], i) ELSE 0

\* C7: fromPixelMatrix(v) makes the grid exactly v, valid or not, and
\* toPixelMatrix returns the grid when it is a valid image and the empty
\* grid when it is not, and leaves the grid as it was.
AccessorsExact ==
    [][/\ last'.op = "fromPixelMatrix" => pixels' = last'.grid
       /\ last'.op = "toPixelMatrix"
             => (/\ pixels' = pixels
                 /\ last'.grid = IF ValidGrid(pixels) THEN pixels
                                  ELSE <<>>)]_vars

\* toPixelMatrix has returned the empty grid for a stored ragged grid.
ToPixelMatrixHidInvalid ==
    /\ last.op = "toPixelMatrix" /\ last.grid = <<>>
    /\ Len(pixels) = 2 /\ Len(pixels[1]) = 1 /\ Len(pixels[2]) = 2

DecoderRowStride ==
    (Decoded /\ DibWidth(OpenedBytes) > 0) =>
        LET w == DibWidth(OpenedBytes) IN
        /\ TraverseBytes(w) = StdStride(w)
        /\ OobCols(w) = {}
        /\ \A r \in 1..Len(pixels) : \A c \in 0..(w - 1) :
              pixels[r][c + 1] = StrideBit(OpenedBytes, StdStride(w), r - 1, c)

\* C10: the file_size field that save writes is the number of bytes of the
\* file it produces, and the pixel data starts at bmp_offset = 62.
HeaderFileSize ==
    Written =>
        LET b == fs[last.file].bytes IN
        /\ RdLE(b, BMP_MAGIC_ID, 4) = Len(b)
        /\ HdrBmpOffset(b) = 62
        /\ b[HdrBmpOffset(b) + 1] = PackedByte(pixels[Len(pixels)], 1)

====
